---- MODULE Spec2Model ----
(***************************************************************************)
(* A model of the kreate-index process: the entry point (argument          *)
(* selection, control channel, setup, run loop, shutdown handler), the     *)
(* environment-driven configuration of the chain indexer, and the polling  *)
(* engine that the ai.logo indexer is built on.                            *)
(*                                                                         *)
(* Strings that the code inspects structurally are modelled structurally:  *)
(*  - an indexer name or a command-line argument is the sequence of its    *)
(*    "."-separated segments, so "ai.logo" is <<"ai", "logo">> and the     *)
(*    prefix argument "ai." is <<"ai", "">>;                               *)
(*  - the raw CHAIN_INDEX_BEGIN value is a sequence of characters.         *)
(***************************************************************************)
EXTENDS Integers, Sequences, FiniteSets, TLC

VARIABLES
  \* ---- entry point (src/index.ts) ----
  argv,               \* process.argv.slice(2)
  ENV,                \* config.ENV
  processEnv,         \* the set of environment keys that are set
  pc,                 \* position of the top-level module code
  willSetup,          \* index.ts:275
  indexers,           \* index.ts:266, the selected names in run order
  cursor,             \* index of the indexer whose run() is in progress
  shutdowns,          \* index.ts:36
  willSaveCheckpoint, \* index.ts:39
  exitCode,           \* process.exitCode
  subscribed,         \* the "index" channel listener is installed
  received,           \* payloads delivered on the "index" channel so far
  setupLog,           \* setup operations performed, in order
  runInvoked,         \* names whose run() has been invoked, in order
  ixState,            \* per registry name: lifecycle of the indexer
  handler,            \* the prexit handler's activation record
  stopLog,            \* shutdown callbacks invoked, in order, each with its
                      \* options and the state its indexer was in
  released,           \* connections.cleanup() has completed
  failure,            \* why the top-level code failed, if it did
  \* ---- configuration of the chain indexer (src/config.ts) ----
  rawBegin,           \* process.env.CHAIN_INDEX_BEGIN
  bootstrap,          \* config.bootstrap of the chain index config file
  chainConfig,        \* outcome of config.chain()
  \* ---- polling engine running one indexer ----
  engine              \* the state of one polling indexer (see EngineInit)

mainVars == <<argv, ENV, processEnv, pc, willSetup, indexers, cursor, shutdowns,
              willSaveCheckpoint, exitCode, subscribed, received, setupLog,
              runInvoked, ixState, handler, stopLog, released, failure>>
configVars == <<rawBegin, bootstrap, chainConfig>>
vars == <<mainVars, configVars, engine>>

\* an optional value: <<>> when undefined or null, <<x>> when it is x
None == <<>>
Some(x) == <<x>>

(***************************************************************************)
(* Sequence helpers                                                        *)
(***************************************************************************)
Last(s) == s[Len(s)]

Range(s) == {s[k] : k \in 1..Len(s)}

RECURSIVE Reverse(_)
Reverse(s) == IF s = <<>> THEN <<>> ELSE Append(Reverse(Tail(s)), Head(s))

RECURSIVE FlatMap(_, _)
FlatMap(F(_), s) == IF s = <<>> THEN <<>> ELSE F(Head(s)) \o FlatMap(F, Tail(s))

\* Array.from(new Set(s)): first occurrences, in insertion order
RECURSIVE Unique(_)
Unique(s) ==
  IF s = <<>> THEN <<>>
  ELSE LET init == Unique(SubSeq(s, 1, Len(s) - 1))
       IN IF Last(s) \in Range(init) THEN init ELSE Append(init, Last(s))

\* Array.prototype.indexOf: 0-based, -1 when absent
IndexOf(s, x) ==
  IF x \in Range(s) THEN (CHOOSE k \in 1..Len(s) : s[k] = x /\ \A j \in 1..(k-1) : s[j] # x) - 1
  ELSE -1

\* Array.prototype.sort on [index, name] pairs with (a, b) => a[0] - b[0]: stable
RECURSIVE InsertByIndex(_, _)
InsertByIndex(sortedPairs, p) ==
  IF sortedPairs = <<>> THEN <<p>>
  ELSE IF Last(sortedPairs)[1] <= p[1] THEN Append(sortedPairs, p)
  ELSE Append(InsertByIndex(SubSeq(sortedPairs, 1, Len(sortedPairs) - 1), p), Last(sortedPairs))

RECURSIVE SortByIndex(_)
SortByIndex(pairs) ==
  IF pairs = <<>> THEN <<>>
  ELSE InsertByIndex(SortByIndex(SubSeq(pairs, 1, Len(pairs) - 1)), Last(pairs))

(***************************************************************************)
(* The registry and the argument selection (index.ts:131-298)              *)
(***************************************************************************)
AllIndexerKeys ==
  << <<"chain">>,
     <<"ipfs", "project_info">>,
     <<"ipfs", "project_announcement">>,
     <<"ai", "logo">>,
     <<"ai", "podcast">>,
     <<"ai", "ocr">>,
     <<"ai", "project_moderation">>,
     <<"discord", "project_alert">>,
     <<"discord", "backing_alert">>,
     <<"discord", "withdraw_funds_alert">>,
     <<"discord", "delegation_alert">>,
     <<"discord", "project_update_alert">>,
     <<"discord", "project_moderation_alert">>,
     <<"discord", "kolour_nft_alert">>,
     <<"discord", "genesis_kreation_nft_alert">> >>

Chain == <<"chain">>
\* the staking sub-indexer of the chain indexer (index.ts:73, 105)
Staking == <<"chain", "staking">>
AiLogo == <<"ai", "logo">>
All == <<"all">>
SetupArg == <<"setup">>

\* arg.endsWith("."): the text after the last "." is empty
EndsWithDot(arg) == Len(arg) >= 2 /\ Last(arg) = ""

\* k.startsWith(arg), for an arg that ends with "."
StartsWith(k, arg) ==
  /\ Len(k) >= Len(arg)
  /\ SubSeq(k, 1, Len(arg) - 1) = SubSeq(arg, 1, Len(arg) - 1)

Filter(s, P(_)) == SelectSeq(s, P)

DisabledIndexers(e) ==
  IF e = "development"
  THEN {k \in Range(AllIndexerKeys) : k[1] = "ai" \/ k[1] = "discord"}
  ELSE {}

\* index.ts:267-274: "all" appends every registry name that is not disabled
PushAll(args, e) ==
  IF All \in Range(args)
  THEN args \o Filter(AllIndexerKeys, LAMBDA k : k \notin DisabledIndexers(e))
  ELSE args

\* index.ts:276-284
Expand(arg) ==
  IF EndsWithDot(arg)
  THEN Filter(AllIndexerKeys, LAMBDA k : StartsWith(k, arg))
  ELSE <<arg>>

PrefixError(args) == \E k \in 1..Len(args) : EndsWithDot(args[k]) /\ Expand(args[k]) = <<>>

expandedArgs(args) == FlatMap(Expand, args)

\* the names are deduplicated but left in the order of the arguments
sortedAsGiven(args) ==
  LET uniq == Unique(expandedArgs(args))
  IN [k \in 1..Len(uniq) |-> <<IndexOf(AllIndexerKeys, uniq[k]), uniq[k]>>]

\* index.ts:285-290
sorted(args) ==
  LET uniq == Unique(expandedArgs(args))
  IN SortByIndex([k \in 1..Len(uniq) |-> <<IndexOf(AllIndexerKeys, uniq[k]), uniq[k]>>])

IsDirective(name) == name = SetupArg \/ name = All

\* only the first element of the sorted list is looked at
UnexpectedAtHead(s) == {k \in 1..Len(s) : k = 1 /\ ~IsDirective(s[k][2]) /\ s[k][1] < 0}

\* index.ts:291-297, the elements at which the loop throws
UnexpectedAt(s) == {k \in 1..Len(s) : ~IsDirective(s[k][2]) /\ s[k][1] < 0}

\* The outcome of lines 255-298 for a given command line
Select(args, e) ==
  IF args = <<>> THEN [status |-> "usage", willSetup |-> FALSE, indexers |-> <<>>]
  ELSE LET pushed == PushAll(args, e)
       IN IF PrefixError(pushed)
          THEN [status |-> "error", willSetup |-> FALSE, indexers |-> <<>>]
          ELSE LET s == sorted(pushed)
               IN IF UnexpectedAt(s) # {}
                  THEN [status |-> "error", willSetup |-> FALSE, indexers |-> <<>>]
                  ELSE [status |-> "ok",
                        willSetup |-> \E k \in 1..Len(s) : IsDirective(s[k][2]),
                        indexers |-> [k \in 1..Len(SelectSeq(s, LAMBDA p : ~IsDirective(p[2])))
                                        |-> SelectSeq(s, LAMBDA p : ~IsDirective(p[2]))[k][2]]]

(***************************************************************************)
(* Required environment values (config.ts) of each indexer's run()         *)
(***************************************************************************)
AiKeys == {"AI_SERVER_URL", "AI_S3_BUCKET"}
AwsKeys == {"ASSETS_S3_BUCKET"}
CardanoKeys == {"NETWORK", "CEXPLORER_URL"}
IpfsKeys == {"IPFS_SERVER_URL", "IPFS_GATEWAY_URL"}
ChainKeys == {"CHAIN_INDEX_CONFIG"}
DiscordKeys ==
  {"DISCORD_BOT_TOKEN", "DISCORD_CONTENT_MODERATION_CHANNEL_ID",
   "DISCORD_BACKING_ALERT_CHANNEL_ID", "DISCORD_WITHDRAW_FUNDS_ALERT_CHANNEL_ID",
   "DISCORD_DELEGATION_ALERT_CHANNEL_ID", "DISCORD_PROJECT_UPDATE_ALERT_CHANNEL_ID",
   "DISCORD_KOLOUR_NFT_ALERT_CHANNEL_ID", "DISCORD_GENESIS_KREATION_NFT_ALERT_CHANNEL_ID",
   "DISCORD_SHINKA_ROLE_ID", "DISCORD_PROJECT_MODERATION_ALERT_CHANNEL_ID"}

AllEnvKeys == AiKeys \cup AwsKeys \cup CardanoKeys \cup IpfsKeys \cup ChainKeys \cup DiscordKeys

\* the config.*() calls made by run() of each registry entry (index.ts:62-242)
RequiredByRun(name) ==
  CASE name = Chain -> ChainKeys
    [] name = <<"ai", "logo">> -> AiKeys
    [] name = <<"ai", "podcast">> -> AiKeys \cup AwsKeys \cup CardanoKeys
    [] name = <<"ai", "ocr">> -> AiKeys \cup IpfsKeys
    [] name = <<"ai", "project_moderation">> -> AiKeys \cup IpfsKeys
    [] name[1] = "discord" -> DiscordKeys
    [] OTHER -> {}

\* requiredEnv (config.ts:15-19): the keys at which it throws
requiredEnv(keys, env) == keys \ env

(***************************************************************************)
(* Inputs of the entry point                                               *)
(***************************************************************************)
MaxArgs == 2
MaxMsgs == 1

ArgTokens == {All, SetupArg, Chain, AiLogo, <<"ipfs", "">>, <<"bogus">>, <<"nope", "">>}

RECURSIVE SeqsUpTo(_, _)
SeqsUpTo(S, n) ==
  IF n = 0 THEN {<<>>}
  ELSE LET shorter == SeqsUpTo(S, n - 1)
       IN shorter \cup {Append(s, x) : s \in shorter, x \in S}

ArgLists == SeqsUpTo(ArgTokens, MaxArgs)

\* config.ts:26: the default environment; "all" then selects chain and ipfs.*
Envs == {"development"}

\* environments: everything set, or one of these required values absent
Environments == {AllEnvKeys} \cup {AllEnvKeys \ {k} : k \in {"CHAIN_INDEX_CONFIG", "AI_S3_BUCKET"}}

Payloads == {"reload", "RELOAD"}

Signals == {"SIGTERM", "SIGINT"}

(***************************************************************************)
(* config.chain() and parseChainIndexBegin (config.ts:130-147, 181-190)    *)
(* A raw environment value is None when the variable is not set and        *)
(* Some(chars) when it is; a begin is a record with a kind.                *)
(***************************************************************************)
Digits == {"0", "7"}
DigitValue(c) == IF c = "7" THEN 7 ELSE 0

OriginText == <<"o", "r", "i", "g", "i", "n">>
TipText == <<"t", "i", "p">>

Keyword(k) == [kind |-> k, slot |-> 0, hash |-> <<>>]
Point(slot, hash) == [kind |-> "point", slot |-> slot, hash |-> hash]
Undefined == Keyword("undefined")
AssertionError == Keyword("assert")

\* String.prototype.split(":"): the pieces between the colons
RECURSIVE SplitColon(_)
SplitColon(str) ==
  IF \A k \in 1..Len(str) : str[k] # ":" THEN <<str>>
  ELSE LET at == CHOOSE k \in 1..Len(str) : str[k] = ":" /\ \A j \in 1..(k-1) : str[j] # ":"
       IN <<SubSeq(str, 1, at - 1)>> \o SplitColon(SubSeq(str, at + 1, Len(str)))

\* raw.split(":", 2): at most the first two pieces
Split2(str) == LET all == SplitColon(str) IN SubSeq(all, 1, IF Len(all) < 2 THEN Len(all) ELSE 2)

\* the longest prefix of decimal digits
RECURSIVE DigitPrefix(_)
DigitPrefix(str) ==
  IF str = <<>> \/ Head(str) \notin Digits THEN <<>>
  ELSE <<Head(str)>> \o DigitPrefix(Tail(str))

RECURSIVE DecimalValue(_)
DecimalValue(ds) ==
  IF ds = <<>> THEN 0 ELSE 10 * DecimalValue(SubSeq(ds, 1, Len(ds) - 1)) + DigitValue(Last(ds))

\* parseInt(str): Some(value of the leading digits), None for NaN
ParseInt(str) == IF DigitPrefix(str) = <<>> THEN None ELSE Some(DecimalValue(DigitPrefix(str)))

\* config.ts:181-190; AssertionError stands for the error thrown by assert
parseChainIndexBegin(raw) ==
  IF raw = None \/ raw = Some(<<>>) THEN Undefined
  ELSE IF raw = Some(OriginText) THEN Keyword("origin")
  ELSE IF raw = Some(TipText) THEN Keyword("tip")
  ELSE LET pieces == Split2(raw[1])
           slot == ParseInt(pieces[1])
           hash == IF Len(pieces) >= 2 THEN Some(pieces[2]) ELSE None
       IN IF slot # None /\ hash # None /\ hash # Some(<<>>)
          THEN Point(slot[1], hash[1])
          ELSE AssertionError

\* the operands of ?? exchanged
CoalesceBootstrapFirst(parsed, boot) == IF boot = Undefined THEN parsed ELSE boot

\* parseChainIndexBegin(...) ?? bootstrap
Coalesce(parsed, boot) == IF parsed = Undefined THEN boot ELSE parsed

\* config.ts:130-147
chain(raw, boot, env) ==
  IF requiredEnv(ChainKeys, env) # {}
  THEN [status |-> "error", error |-> "CHAIN_INDEX_CONFIG must be set", begin |-> Undefined]
  ELSE LET first == IF Len(boot) > 0 THEN boot[1] ELSE Undefined
           parsed == parseChainIndexBegin(raw)
       IN IF parsed = AssertionError
          THEN [status |-> "error", error |-> "Must be <slot>:<hash>", begin |-> Undefined]
          ELSE LET begin == Coalesce(parsed, first)
               IN IF begin = Undefined
                  THEN [status |-> "error",
                        error |-> "CHAIN_INDEX_BEGIN or 'bootstrap' in config must be set",
                        begin |-> Undefined]
                  ELSE [status |-> "ok", error |-> "", begin |-> begin]

\* index.ts:87-90: the begin handed to indexer.start
StartBegin(begin) ==
  IF begin.kind \in {"origin", "tip"} THEN [keyword |-> begin.kind, points |-> <<>>]
  ELSE [keyword |-> "", points |-> <<begin>>]

MaxRawLen == 3
RawAlphabet == {"0", "7", ":", "a"}
RawValues == {None, Some(OriginText), Some(TipText)} \cup {Some(t) : t \in SeqsUpTo(RawAlphabet, MaxRawLen)}

BootPoint1 == Point(100, <<"b", "1">>)
BootPoint2 == Point(50, <<"b", "2">>)
Bootstraps == {<<>>, <<BootPoint1>>, <<BootPoint1, BootPoint2>>}

(***************************************************************************)
(* The entry point (index.ts)                                              *)
(***************************************************************************)
ReloadExitCode == 174
UsageExitCode == 1

\* os.constants.signals[signal] ?? 1 (index.ts:47)
SignalExitCode(signal) ==
  CASE signal = "SIGTERM" -> 15
    [] signal = "SIGINT" -> 2
    [] OTHER -> 1

IdleHandler == [state |-> "idle", signal |-> "", error |-> FALSE,
                snapshot |-> <<>>, next |-> 1, active |-> {}]

\* the process has exited: usage exit, or the shutdown handler has finished
Exited == pc = "exited" \/ handler.state = "done"

\* the callbacks walked in registration order
ShutdownOrderForward(list) == list

\* index.ts:44, the order in which the handler walks the callbacks
ShutdownOrder(list) == Reverse(list)

\* prexit: the registered handler is entered at most once, synchronously with
\* the event that ends the process
EnterShutdown(signal, error) ==
  IF handler.state = "idle"
  THEN handler' = [state |-> "shutdowns", signal |-> signal, error |-> error,
                   snapshot |-> ShutdownOrder(shutdowns), next |-> 1, active |-> {}]
  ELSE UNCHANGED handler

\* an error thrown by the top-level code ends it and reaches the handler
Throw(kind) ==
  /\ failure' = kind
  /\ pc' = "failed"
  /\ EnterShutdown("uncaughtException", TRUE)

\* the state of the process before its top-level code runs
MainBoot ==
  /\ pc = "main"
  /\ willSetup = FALSE
  /\ indexers = <<>>
  /\ cursor = 1
  /\ shutdowns = <<>>
  /\ willSaveCheckpoint = TRUE
  /\ exitCode = None
  /\ subscribed = FALSE
  /\ received = <<>>
  /\ setupLog = <<>>
  /\ runInvoked = <<>>
  /\ ixState = [n \in Range(AllIndexerKeys) \cup {Staking} |-> "idle"]
  /\ handler = IdleHandler
  /\ stopLog = <<>>
  /\ released = FALSE
  /\ failure = ""

MainInit ==
  /\ argv \in ArgLists
  /\ ENV \in Envs
  /\ processEnv \in Environments
  /\ MainBoot

\* index.ts:255-298
ParseArgs ==
  /\ pc = "main" /\ ~Exited
  /\ LET sel == Select(argv, ENV)
     IN CASE sel.status = "usage" ->
               /\ pc' = "exited"
               /\ exitCode' = Some(UsageExitCode)
               /\ UNCHANGED <<willSetup, indexers, handler, failure>>
          [] sel.status = "error" ->
               /\ Throw("argument")
               /\ UNCHANGED <<willSetup, indexers, exitCode>>
          [] OTHER ->
               /\ willSetup' = sel.willSetup
               /\ indexers' = sel.indexers
               /\ pc' = "listen"
               /\ UNCHANGED <<handler, failure, exitCode>>
  /\ UNCHANGED <<configVars, engine, argv, ENV, processEnv, cursor, shutdowns, willSaveCheckpoint, subscribed,
                 received, setupLog, runInvoked, ixState, stopLog, released>>

\* index.ts:300-314
Listen ==
  /\ pc = "listen" /\ ~Exited
  /\ subscribed' = TRUE
  /\ pc' = IF willSetup THEN "setup" ELSE "run"
  /\ UNCHANGED <<configVars, engine, argv, ENV, processEnv, willSetup, indexers, cursor, shutdowns,
                 willSaveCheckpoint, exitCode, received, setupLog, runInvoked, ixState,
                 handler, stopLog, released, failure>>

\* the views are set up before the admin and migration tables
SetupOpsViewsEarly ==
  <<"setupSchemas", "setup", "setupViews", "setupAdminTables", "setupMigrationTables">>

\* index.ts:318-324: the setup operations, each awaited before the next;
\* "setup" is the Promise.all over the setup of the registry entries
SetupOps ==
  <<"setupSchemas", "setup", "setupAdminTables", "setupMigrationTables", "setupViews">>

\* index.ts:319-321: the indexers whose setup the operation runs
SetupOf(op) == IF op = "setup" THEN Range(AllIndexerKeys) ELSE {}

\* index.ts:316-325: the next setup operation runs to completion
Setup ==
  /\ pc = "setup" /\ ~Exited
  /\ LET op == SetupOps[Len(setupLog) + 1]
     IN setupLog' = Append(setupLog, [op |-> op, of |-> SetupOf(op)])
  /\ pc' = IF Len(setupLog) + 1 = Len(SetupOps) THEN "run" ELSE "setup"
  /\ UNCHANGED <<configVars, engine, argv, ENV, processEnv, willSetup, indexers, cursor, shutdowns,
                 willSaveCheckpoint, exitCode, subscribed, received, runInvoked, ixState,
                 handler, stopLog, released, failure>>

\* index.ts:330-333: nothing selected
NothingToRun ==
  /\ pc = "run" /\ ~Exited
  /\ indexers = <<>>
  /\ pc' = "idle"
  /\ exitCode' = IF handler.state = "idle" /\ exitCode = None THEN Some(0) ELSE exitCode
  /\ EnterShutdown("exit0", FALSE)
  /\ UNCHANGED <<configVars, engine, argv, ENV, processEnv, willSetup, indexers, cursor, shutdowns,
                 willSaveCheckpoint, subscribed, received, setupLog, runInvoked, ixState,
                 stopLog, released, failure>>

\* the loop of index.ts:329 moves on to the next indexer
NextPc == IF cursor < Len(indexers) THEN "invoke" ELSE "idle"

\* index.ts:328-329: the loop is entered
EnterRunLoop ==
  /\ pc = "run" /\ ~Exited
  /\ indexers # <<>>
  /\ pc' = "invoke"
  /\ UNCHANGED <<configVars, engine, argv, ENV, processEnv, willSetup, indexers, cursor, shutdowns,
                 willSaveCheckpoint, exitCode, subscribed, received, setupLog, runInvoked,
                 ixState, handler, stopLog, released, failure>>

\* whether the configuration read by run() of `name` loads (index.ts:63, 123)
ConfigLoads(name) ==
  /\ requiredEnv(RequiredByRun(name), processEnv) = {}
  /\ name = Chain => chain(rawBegin, bootstrap, processEnv).status = "ok"

\* run() is invoked: it reads its configuration first (index.ts:63, 123)
RunInvoke ==
  /\ pc = "invoke" /\ ~Exited
  /\ LET name == indexers[cursor]
     IN /\ runInvoked' = Append(runInvoked, name)
        /\ IF ConfigLoads(name)
           THEN /\ ixState' = [ixState EXCEPT ![name] = "invoked"]
                /\ pc' = "provide"
                /\ UNCHANGED <<handler, failure>>
           ELSE /\ Throw("config")
                /\ UNCHANGED ixState
  /\ UNCHANGED <<configVars, engine, argv, ENV, processEnv, willSetup, indexers, cursor, shutdowns,
                 willSaveCheckpoint, exitCode, subscribed, received, setupLog,
                 stopLog, released>>

\* wrapPollingIndexer's run (index.ts:124-126) and the push of index.ts:329:
\* connections are provided, start(context) is called without being awaited,
\* stop is returned and registered
PollingRunReturn ==
  /\ pc = "provide" /\ ~Exited
  /\ indexers[cursor] # Chain
  /\ ixState' = [ixState EXCEPT ![indexers[cursor]] = "started"]
  /\ shutdowns' = Append(shutdowns, indexers[cursor])
  /\ pc' = NextPc
  /\ cursor' = cursor + 1
  /\ UNCHANGED <<configVars, engine, argv, ENV, processEnv, willSetup, indexers, willSaveCheckpoint, exitCode,
                 subscribed, received, setupLog, runInvoked, handler, stopLog, released,
                 failure>>

\* the states of a polling indexer whose start(context) has been called and
\* whose stop has not: initialize in progress, or triggers armed
PollingAlive == {"started", "running"}

\* index.ts:125, logo.ts:45-63: the start(context) that run() did not await
\* finishes initialize and arms the triggers
PollingArmed(name) ==
  /\ ~Exited
  /\ name # Chain /\ ixState[name] = "started"
  /\ ixState' = [ixState EXCEPT ![name] = "running"]
  /\ UNCHANGED <<configVars, engine, argv, ENV, processEnv, pc, willSetup, indexers, cursor, shutdowns,
                 willSaveCheckpoint, exitCode, subscribed, received, setupLog, runInvoked,
                 handler, stopLog, released, failure>>

\* index.ts:64-73: connections provided, the chain indexer is built and
\* staking.start() is called
ChainProvide ==
  /\ pc = "provide" /\ ~Exited
  /\ indexers[cursor] = Chain
  /\ ixState' = [ixState EXCEPT ![Chain] = "staking", ![Staking] = "starting"]
  /\ pc' = "staking"
  /\ UNCHANGED <<configVars, engine, argv, ENV, processEnv, willSetup, indexers, cursor, shutdowns,
                 willSaveCheckpoint, exitCode, subscribed, received, setupLog, runInvoked,
                 handler, stopLog, released, failure>>

\* index.ts:73-75: staking.start() has completed, indexer.start(...) is called
ChainStakingStarted ==
  /\ pc = "staking" /\ ~Exited
  /\ ixState' = [ixState EXCEPT ![Chain] = "intersecting", ![Staking] = "started"]
  /\ pc' = "intersect"
  /\ UNCHANGED <<configVars, engine, argv, ENV, processEnv, willSetup, indexers, cursor, shutdowns,
                 willSaveCheckpoint, exitCode, subscribed, received, setupLog, runInvoked,
                 handler, stopLog, released, failure>>

\* index.ts:75-107 and 329: the intersection is found, the callback returned
\* and registered
ChainStarted ==
  /\ pc = "intersect" /\ ~Exited
  /\ ixState' = [ixState EXCEPT ![Chain] = "started"]
  /\ shutdowns' = Append(shutdowns, Chain)
  /\ pc' = NextPc
  /\ cursor' = cursor + 1
  /\ UNCHANGED <<configVars, engine, argv, ENV, processEnv, willSetup, indexers, willSaveCheckpoint, exitCode,
                 subscribed, received, setupLog, runInvoked, handler, stopLog, released,
                 failure>>

(***************************************************************************)
(* Events that reach the process, and the shutdown handler (index.ts:41-56)*)
(***************************************************************************)
\* a comparison that ignores case
IsReloadAnyCase(payload) == payload \in {"reload", "RELOAD"}

\* index.ts:304
IsReload(payload) == payload = "reload"

\* a termination signal is delivered; prexit enters the handler. Signals are
\* dispatched by the event loop, which the top-level code first yields to at
\* the await of index.ts:300
Signal(sig) ==
  /\ ~Exited
  /\ pc # "main"
  /\ handler.state = "idle"
  /\ EnterShutdown(sig, TRUE)
  /\ UNCHANGED <<configVars, engine, argv, ENV, processEnv, pc, willSetup, indexers, cursor, shutdowns,
                 willSaveCheckpoint, exitCode, subscribed, received, setupLog, runInvoked,
                 ixState, stopLog, released, failure>>

\* index.ts:125: the promise of start(context), which nobody awaits, rejects
\* (initialize or a fetch cycle failed); prexit enters the handler
StartRejects(name) ==
  /\ ~Exited
  /\ handler.state = "idle"
  /\ name # Chain /\ ixState[name] \in PollingAlive
  /\ EnterShutdown("unhandledRejection", TRUE)
  /\ UNCHANGED <<configVars, engine, argv, ENV, processEnv, pc, willSetup, indexers, cursor, shutdowns,
                 willSaveCheckpoint, exitCode, subscribed, received, setupLog, runInvoked,
                 ixState, stopLog, released, failure>>

\* index.ts:303-312: a message arrives on the "index" channel
Notify(payload) ==
  /\ ~Exited
  /\ subscribed /\ ~released
  /\ Len(received) < MaxMsgs
  /\ received' = Append(received, payload)
  /\ IF IsReload(payload)
     THEN /\ willSaveCheckpoint' = FALSE
          /\ exitCode' = Some(ReloadExitCode)
          /\ EnterShutdown("prexit", FALSE)
     ELSE UNCHANGED <<willSaveCheckpoint, exitCode, handler>>
  /\ UNCHANGED <<configVars, engine, argv, ENV, processEnv, pc, willSetup, indexers, cursor, shutdowns,
                 subscribed, setupLog, runInvoked, ixState, stopLog, released, failure>>

\* the flag is not consulted
ChainStopOptionsAlwaysSave(flag) == [immediate |-> Some(TRUE), saveCheckpoint |-> Some(TRUE)]

\* index.ts:101-104: the options of the chain indexer's stop
ChainStopOptions(flag) == [immediate |-> Some(TRUE), saveCheckpoint |-> Some(flag)]

\* index.ts:126: indexer.stop.bind(indexer), called with no argument
PollingStopOptions == [immediate |-> None, saveCheckpoint |-> None]

StopOptions(name) ==
  IF name = Chain THEN ChainStopOptions(willSaveCheckpoint) ELSE PollingStopOptions

\* staking is stopped before the chain follow
ChainStopOrderStakingFirst == <<Staking, Chain>>

\* index.ts:100-106: what the chain indexer's callback stops, in order, each
\* stop awaited before the next
ChainStopOrder == <<Chain, Staking>>

\* what the callback registered for `name` stops, in order
StopOrder(name) == IF name = Chain THEN ChainStopOrder ELSE <<name>>

\* index.ts:44: whether the loop may invoke the next callback
MayInvokeNext(h) == h.active = {}

\* index.ts:44: the next shutdown callback is invoked
ShutdownCall ==
  /\ handler.state = "shutdowns"
  /\ handler.next <= Len(handler.snapshot)
  /\ MayInvokeNext(handler)
  /\ LET name == handler.snapshot[handler.next]
     IN /\ handler' = [handler EXCEPT !.active = @ \cup {name}, !.next = @ + 1]
        /\ stopLog' = Append(stopLog, [name |-> name, options |-> StopOptions(name),
                                       at |-> ixState[name]])
        /\ ixState' = [ixState EXCEPT ![StopOrder(name)[1]] = "stopping"]
  /\ UNCHANGED <<configVars, engine, argv, ENV, processEnv, pc, willSetup, indexers, cursor, shutdowns,
                 willSaveCheckpoint, exitCode, subscribed, received, setupLog, runInvoked,
                 released, failure>>

\* index.ts:101-105: inside a callback, one stop has completed and the next
\* is called
StopNext ==
  /\ handler.state = "shutdowns"
  /\ \E name \in handler.active :
       \E k \in 1..(Len(StopOrder(name)) - 1) :
         /\ ixState[StopOrder(name)[k]] = "stopping"
         /\ ixState' = [ixState EXCEPT ![StopOrder(name)[k]] = "stopped",
                                       ![StopOrder(name)[k + 1]] = "stopping"]
  /\ UNCHANGED <<configVars, engine, argv, ENV, processEnv, pc, willSetup, indexers, cursor, shutdowns,
                 willSaveCheckpoint, exitCode, subscribed, received, setupLog, runInvoked,
                 handler, stopLog, released, failure>>

\* index.ts:44: the awaited callback completes with its last stop
ShutdownDone ==
  /\ handler.state = "shutdowns"
  /\ \E name \in handler.active :
       /\ ixState[Last(StopOrder(name))] = "stopping"
       /\ handler' = [handler EXCEPT !.active = @ \ {name}]
       /\ ixState' = [ixState EXCEPT ![Last(StopOrder(name))] = "stopped"]
  /\ UNCHANGED <<configVars, engine, argv, ENV, processEnv, pc, willSetup, indexers, cursor, shutdowns,
                 willSaveCheckpoint, exitCode, subscribed, received, setupLog, runInvoked,
                 stopLog, released, failure>>

\* the name of the signal is not looked up
ExitCodeAfterAlwaysOne(code, signal, error) ==
  IF code = None /\ error THEN Some(1) ELSE code

\* index.ts:46-47
ExitCodeAfter(code, signal, error) ==
  IF code = None /\ error THEN Some(SignalExitCode(signal)) ELSE code

\* index.ts:45: whether the loop over the callbacks has ended
CallbacksOver(h) == h.next > Len(h.snapshot) /\ h.active = {}

\* index.ts:45-55: connections are released, the exit status is settled and
\* the process exits
HandlerFinish ==
  /\ handler.state = "shutdowns"
  /\ CallbacksOver(handler)
  /\ released' = TRUE
  /\ exitCode' = ExitCodeAfter(exitCode, handler.signal, handler.error)
  /\ handler' = [handler EXCEPT !.state = "done"]
  /\ UNCHANGED <<configVars, engine, argv, ENV, processEnv, pc, willSetup, indexers, cursor, shutdowns,
                 willSaveCheckpoint, subscribed, received, setupLog, runInvoked,
                 ixState, stopLog, failure>>

MainNext ==
  \/ ParseArgs
  \/ Listen
  \/ Setup
  \/ NothingToRun
  \/ EnterRunLoop
  \/ RunInvoke
  \/ PollingRunReturn
  \/ \E name \in Range(AllIndexerKeys) : PollingArmed(name)
  \/ ChainProvide
  \/ ChainStakingStarted
  \/ ChainStarted
  \/ \E sig \in Signals : Signal(sig)
  \/ \E name \in Range(AllIndexerKeys) : StartRejects(name)
  \/ \E payload \in Payloads : Notify(payload)
  \/ ShutdownCall
  \/ StopNext
  \/ ShutdownDone
  \/ HandlerFinish

(***************************************************************************)
(* Loading the chain configuration on its own (config.ts:130-147)          *)
(***************************************************************************)
Unread == [status |-> "unread", error |-> "", begin |-> Undefined,
           start |-> [keyword |-> "", points |-> <<>>]]

ConfigIdle ==
  /\ rawBegin = None
  /\ bootstrap = <<BootPoint1>>
  /\ chainConfig = Unread

ConfigInit ==
  /\ rawBegin \in RawValues
  /\ bootstrap \in Bootstraps
  /\ chainConfig = Unread

\* config.chain() is evaluated (index.ts:63)
LoadChainConfig ==
  /\ chainConfig.status = "unread"
  /\ LET c == chain(rawBegin, bootstrap, processEnv)
     IN chainConfig' = [chainConfig EXCEPT !.status = c.status, !.error = c.error,
                                           !.begin = c.begin]
  /\ UNCHANGED <<mainVars, engine, rawBegin, bootstrap>>

\* index.ts:87-90: begin is handed to indexer.start
HandBegin ==
  /\ chainConfig.status = "ok"
  /\ chainConfig' = [chainConfig EXCEPT !.status = "handed", !.start = StartBegin(chainConfig.begin)]
  /\ UNCHANGED <<mainVars, engine, rawBegin, bootstrap>>

EngineIdle == engine = [kind |-> "none"]

Init == MainInit /\ ConfigIdle /\ EngineIdle

Next == MainNext

Spec == Init /\ [][Next]_vars

ConfigSpecInit ==
  /\ argv = <<>> /\ ENV = "development" /\ processEnv \in Environments
  /\ MainBoot
  /\ ConfigInit
  /\ EngineIdle

ConfigNext == LoadChainConfig \/ HandBegin

SpecConfig == ConfigSpecInit /\ [][ConfigNext]_vars

(***************************************************************************)
(* The polling engine (framework/polling, described in sections 4.1-4.3 of *)
(* the specification) running one indexer: either ai.logo, configured as   *)
(* in indexers/ai/logo.ts, or a stub whose fetch pages on command.         *)
(***************************************************************************)
AiLogoWorkers == 16
MaxWorkers == 2
MaxPages == 2
MaxTasks == 2
MaxPuts == 1
MaxKeysPerPage == 1

Keys == {"logos/a", "logos/b", "logos/c"}
KeyOrder == <<"logos/a", "logos/b", "logos/c">>
ETags == {"e1", "e2", "e3"}
NoETag == "undefined"
Absent == "absent"

\* logo.ts:20-23
Task(key, etag) == [key |-> key, etag |-> etag]
Tasks == {Task(k, e) : k \in Keys, e \in ETags \cup {NoETag}}

\* the identity taken from the ETag
TaskIdByETag(task) == task.etag

\* logo.ts:51, $id
TaskId(task) == task.key

\* logo.ts:45-49
AiLogoConfig == [name |-> "ai.logo", channels |-> {"ai.logo"}, interval |-> TRUE,
                 workers |-> AiLogoWorkers, pages |-> 0]

StubConfig(w, n) == [name |-> "stub", channels |-> {"stub"}, interval |-> TRUE,
                     workers |-> w, pages |-> n]

\* logo.ts:125-131: the objects listed, those to fetch and those skipped
Listing(bucket) == SelectSeq(KeyOrder, LAMBDA k : bucket[k] # Absent)

NeedsFetch(etag, fetched) == etag = NoETag \/ etag \notin fetched

\* logo.ts:116-132, one ListObjectsV2 call: the objects after the first
\* `token` ones, at most MaxKeysPerPage of them, and NextContinuationToken
Page(listed, token) ==
  LET last == IF token + MaxKeysPerPage < Len(listed) THEN token + MaxKeysPerPage ELSE Len(listed)
  IN [contents |-> SubSeq(listed, token + 1, last),
      next |-> IF last < Len(listed) THEN Some(last) ELSE None]

\* logo.ts:125-131: the tasks and the skip count of one page
PageTasks(contents, bucket, fetched) ==
  LET wanted == SelectSeq(contents, LAMBDA k : NeedsFetch(bucket[k], fetched))
  IN [tasks |-> [j \in 1..Len(wanted) |-> Task(wanted[j], bucket[wanted[j]])],
      skipped |-> Len(contents) - Len(wanted)]

\* the continuation token is not followed
FetchPagesFirstOnly(listed, bucket, fetched, token) ==
  PageTasks(Page(listed, token).contents, bucket, fetched)

\* logo.ts:135-137: do fetchSinglePage while a continuation token comes back
RECURSIVE FetchPages(_, _, _, _)
FetchPages(listed, bucket, fetched, token) ==
  LET page == Page(listed, token)
      here == PageTasks(page.contents, bucket, fetched)
  IN IF page.next = None THEN here
     ELSE LET rest == FetchPages(listed, bucket, fetched, page.next[1])
          IN [tasks |-> here.tasks \o rest.tasks, skipped |-> here.skipped + rest.skipped]

\* logo.ts:107-140
fetchTasksFromS3(bucket, fetched) == FetchPages(Listing(bucket), bucket, fetched, 0)

\* a fetch that always announces another page
AiLogoFetchContinues(bucket, fetched) ==
  [tasks |-> fetchTasksFromS3(bucket, fetched).tasks, continue |-> TRUE]

\* logo.ts:65-71, fetch
AiLogoFetch(bucket, fetched) ==
  [tasks |-> fetchTasksFromS3(bucket, fetched).tasks, continue |-> FALSE]

\* the results a paging stub may return on its call number `call` of a cycle
StubFetch(call, pages) ==
  {[tasks |-> [j \in 1..Len(ks) |-> Task(ks[j], NoETag)], continue |-> call < pages] :
     ks \in SeqsUpTo(Keys, MaxTasks)}

\* section 4.1: a slot is free while fewer than `workers` handlers run
HasFreeSlotOffByOne(n, w) == n <= w

HasFreeSlot(n, w) == n < w

\* section 4.2: every trigger is queued
RaiseQueued(pending) == pending + 1

\* section 4.2: triggers coalesce into one "run a cycle" signal
Raise(pending) == 1

Running(e) == {t \in Tasks : e.running[t] > 0}

RECURSIVE SumOver(_, _)
SumOver(f, S) == IF S = {} THEN 0 ELSE LET x == CHOOSE y \in S : TRUE IN f[x] + SumOver(f, S \ {x})

HandlerCount(e) == SumOver(e.running, Tasks)

\* logo.ts:17, 77: the letter captured from the key by S3_KEY_PATTERN; the key
\* "logos/c" stands for a key the pattern does not match
Letter(key) ==
  CASE key = "logos/a" -> Some("A")
    [] key = "logos/b" -> Some("B")
    [] OTHER -> None

\* logo.ts:91: the cid that ipfs.add gives the body; "e1" and "e2" are ETags of
\* the same content (uploaded in different ways), "e3" of another content
Cid(etag) == IF etag = "e3" THEN "cid2" ELSE "cid1"

\* logo.ts:27-31: a row of ai.logo
Row(cid, letter, etag) == [cid |-> cid, letter |-> letter, etag |-> etag]

\* a conflicting write replaces the whole row
UpsertReplacingRow(table, row) == {r \in table : r.cid # row.cid} \cup {row}

\* logo.ts:95-100: INSERT ... ON CONFLICT (cid) DO UPDATE SET etag = EXCLUDED.etag
Upsert(table, row) ==
  IF \E r \in table : r.cid = row.cid
  THEN {IF r.cid = row.cid THEN [r EXCEPT !.etag = row.etag] ELSE r : r \in table}
  ELSE table \cup {row}

\* the rows of ai.logo when the process starts
Tables == {{}, {Row(Cid("e1"), "B", "e1")}}

\* logo.ts:57-61: the ETags of the rows that have one
Hydrate(table) == {r.etag : r \in {q \in table : q.etag # NoETag}}

EngineConfigs == {AiLogoConfig} \cup {StubConfig(w, n) : w \in 1..MaxWorkers, n \in 1..MaxPages}

Buckets == {[k \in Keys |-> IF k \in present THEN "e1" ELSE Absent] : present \in {{"logos/a"}}}

EngineInit ==
  \E c \in EngineConfigs, b \in Buckets, rows \in Tables :
    engine = [kind |-> "polling",
              config |-> c,
              state |-> "Created",
              bucket |-> IF c.name = "ai.logo" THEN b ELSE [k \in Keys |-> Absent],
              fetched |-> {},           \* context.fetched (index.ts:148)
              table |-> IF c.name = "ai.logo" THEN rows ELSE {},   \* rows of ai.logo
              armed |-> FALSE,          \* the interval timer is armed
              pending |-> 0,            \* the coalesced trigger signal
              cycles |-> 0,             \* fetch cycles in progress
              phase |-> "idle",         \* idle, fetch or dispatch
              fetchCalls |-> 0,         \* fetch calls of the cycle in progress
              queue |-> <<>>,           \* tasks of the page being dispatched
              more |-> FALSE,           \* continue of the last fetch result
              inFlight |-> {},          \* identities being handled
              running |-> [t \in Tasks |-> 0],   \* handlers executing, per task
              \* history, for the bounds and the properties
              puts |-> 0,               \* bucket changes so far
              trigsInCycle |-> {},      \* kinds of trigger fired during the cycle in progress
              coalesced |-> {},         \* such triggers served by the last cycle start
              dropped |-> FALSE]        \* a task was dropped for being in flight

\* section 4.3: start(context) runs initialize (logo.ts:53-63) ...
Initialize ==
  /\ engine.kind = "polling" /\ engine.state = "Created"
  /\ engine' = [engine EXCEPT !.state = "Initialized",
                              !.fetched = @ \cup Hydrate(engine.table)]
  /\ UNCHANGED <<mainVars, configVars>>

\* ... and then arms the triggers (logo.ts:45-48)
ArmTriggers ==
  /\ engine.kind = "polling" /\ engine.state = "Initialized"
  /\ engine' = [engine EXCEPT !.state = "Running", !.armed = engine.config.interval]
  /\ UNCHANGED <<mainVars, configVars>>

CountTrigger(e, trigger) ==
  [e EXCEPT !.pending = Raise(e.pending),
            !.trigsInCycle = IF e.cycles > 0 THEN @ \cup {trigger} ELSE @]

\* section 4.2: the interval elapses
IntervalFires ==
  /\ engine.kind = "polling" /\ engine.state = "Running"
  /\ engine.armed
  /\ engine' = [CountTrigger(engine, "interval") EXCEPT !.armed = FALSE]
  /\ UNCHANGED <<mainVars, configVars>>

\* section 4.2: a message arrives on one of the indexer's channels
ChannelNotifies ==
  /\ engine.kind = "polling" /\ engine.state = "Running"
  /\ \E ch \in engine.config.channels : engine' = CountTrigger(engine, "channel")
  /\ UNCHANGED <<mainVars, configVars>>

\* section 4.2 / 4.3: the coalesced signal starts a cycle when none runs
MayStartCycle(e) == e.pending > 0 /\ e.cycles = 0

StartCycle ==
  /\ engine.kind = "polling" /\ engine.state = "Running"
  /\ MayStartCycle(engine)
  /\ engine' = [engine EXCEPT !.pending = @ - 1,
                              !.cycles = @ + 1,
                              !.phase = "fetch",
                              !.fetchCalls = 0,
                              !.coalesced = engine.trigsInCycle,
                              !.trigsInCycle = {}]
  /\ UNCHANGED <<mainVars, configVars>>

FetchResults(e) ==
  IF e.config.name = "ai.logo"
  THEN {AiLogoFetch(e.bucket, e.fetched)}
  ELSE StubFetch(e.fetchCalls + 1, e.config.pages)

\* section 4.3: fetch() is called
Fetch ==
  /\ engine.kind = "polling"
  /\ engine.phase = "fetch"
  /\ \E r \in FetchResults(engine) :
       engine' = [engine EXCEPT !.fetchCalls = @ + 1,
                                !.queue = r.tasks,
                                !.more = r.continue,
                                !.phase = "dispatch"]
  /\ UNCHANGED <<mainVars, configVars>>

\* section 4.1: the next task of the page is admitted
Admit ==
  /\ engine.kind = "polling"
  /\ engine.phase = "dispatch" /\ engine.queue # <<>>
  /\ LET task == Head(engine.queue)
     IN /\ TaskId(task) \notin engine.inFlight
        /\ HasFreeSlot(HandlerCount(engine), engine.config.workers)
        /\ engine' = [engine EXCEPT !.queue = Tail(@),
                                    !.inFlight = @ \cup {TaskId(task)},
                                    !.running[task] = @ + 1]
  /\ UNCHANGED <<mainVars, configVars>>

\* section 4.1: a task whose identity is in flight is dropped
Drop ==
  /\ engine.kind = "polling"
  /\ engine.phase = "dispatch" /\ engine.queue # <<>>
  /\ LET task == Head(engine.queue)
     IN /\ TaskId(task) \in engine.inFlight
        /\ engine' = [engine EXCEPT !.queue = Tail(@), !.dropped = TRUE]
  /\ UNCHANGED <<mainVars, configVars>>

\* section 4.3: the page is dispatched; fetch again, or end the cycle and
\* re-arm the interval
PageDone ==
  /\ engine.kind = "polling"
  /\ engine.phase = "dispatch" /\ engine.queue = <<>>
  /\ IF engine.more
     THEN engine' = [engine EXCEPT !.phase = "fetch"]
     ELSE engine' = [engine EXCEPT !.phase = "idle",
                                   !.cycles = @ - 1,
                                   !.armed = engine.config.interval]
  /\ UNCHANGED <<mainVars, configVars>>

\* logo.ts:80-86: GetObject succeeds only on an object that is there and, when
\* the task carries an ETag, still has it
CanGet(e, task) ==
  /\ e.bucket[task.key] # Absent
  /\ task.etag # NoETag => e.bucket[task.key] = task.etag

\* logo.ts:73-103: how a handler ends: "ok", or with the error thrown at the
\* key match (78), by s3.send (80), by ipfs.add (91) or by the upsert (95)
Outcomes == {"ok", "match", "get", "ipfs", "upsert"}

\* the ways the handler of `task` may end in the state e
MayEnd(e, task, outcome) ==
  IF e.config.name # "ai.logo" THEN outcome \in {"ok", "get"}
  ELSE CASE outcome = "match" -> Letter(task.key) = None
         [] outcome = "get" -> Letter(task.key) # None
         [] OTHER -> Letter(task.key) # None /\ CanGet(e, task)

\* logo.ts:87-94: what the handler leaves in context.fetched; the ETag is
\* added before the upsert is attempted
FetchedAfter(e, task, outcome) ==
  IF e.config.name = "ai.logo" /\ outcome \in {"ok", "upsert"}
     /\ e.bucket[task.key] \notin {Absent, NoETag}
  THEN e.fetched \cup {e.bucket[task.key]}
  ELSE e.fetched

\* logo.ts:95-100: what the handler leaves in ai.logo
TableAfter(e, task, outcome) ==
  IF e.config.name = "ai.logo" /\ outcome = "ok"
  THEN Upsert(e.table, Row(Cid(e.bucket[task.key]), Letter(task.key)[1], e.bucket[task.key]))
  ELSE e.table

\* the identity is released only when the handler succeeded
ReleaseOnSuccess(inFlight, id, outcome) ==
  IF outcome = "ok" THEN inFlight \ {id} ELSE inFlight

\* section 4.1: on handler completion the identity leaves the in-flight set,
\* regardless of outcome
Release(inFlight, id, outcome) == inFlight \ {id}

\* section 4.1: a handler finishes, with or without an error
Finish ==
  /\ engine.kind = "polling"
  /\ \E task \in Running(engine), outcome \in Outcomes :
       /\ MayEnd(engine, task, outcome)
       /\ engine' = [engine EXCEPT !.running[task] = @ - 1,
                                   !.inFlight = Release(@, TaskId(task), outcome),
                                   !.fetched = FetchedAfter(engine, task, outcome),
                                   !.table = TableAfter(engine, task, outcome)]
  /\ UNCHANGED <<mainVars, configVars>>

\* the bucket changes: an object is written or overwritten
S3Put ==
  /\ engine.kind = "polling" /\ engine.config.name = "ai.logo"
  /\ engine.puts < MaxPuts
  /\ \E k \in Keys, e \in ETags :
       /\ engine.bucket[k] # e
       /\ engine' = [engine EXCEPT !.bucket[k] = e, !.puts = @ + 1]
  /\ UNCHANGED <<mainVars, configVars>>

PollingNext ==
  \/ Initialize
  \/ ArmTriggers
  \/ IntervalFires
  \/ ChannelNotifies
  \/ StartCycle
  \/ Fetch
  \/ Admit
  \/ Drop
  \/ PageDone
  \/ Finish
  \/ S3Put

PollingInit ==
  /\ argv = <<>> /\ ENV = "development" /\ processEnv = AllEnvKeys
  /\ MainBoot
  /\ ConfigIdle
  /\ EngineInit

SpecPolling == PollingInit /\ [][PollingNext]_vars

(***************************************************************************)
(* Properties of the entry point                                           *)
(***************************************************************************)
StopNames == [k \in 1..Len(stopLog) |-> stopLog[k].name]

\* C5: the shutdown handler invokes the callbacks registered when it was
\* entered one at a time, in exactly the reverse of their registration order,
\* and connections are released only after the last one has completed.
C5_ReverseShutdown ==
  /\ Cardinality(handler.active) <= 1
  /\ \A n \in handler.active : Len(stopLog) > 0 /\ n = stopLog[Len(stopLog)].name
  /\ Len(stopLog) <= Len(handler.snapshot)
  /\ Len(handler.snapshot) <= Len(shutdowns)
  /\ StopNames = SubSeq(Reverse(SubSeq(shutdowns, 1, Len(handler.snapshot))), 1, Len(stopLog))
  /\ \A k \in 1..(Len(stopLog) - 1) : ixState[stopLog[k].name] = "stopped"
  /\ released =>
       /\ Len(stopLog) = Len(handler.snapshot)
       /\ handler.active = {}
       /\ \A k \in 1..Len(stopLog) : ixState[stopLog[k].name] = "stopped"

C5_Witness ==
  /\ released
  /\ Len(stopLog) >= 3
  /\ stopLog[Len(stopLog)].name = Chain

\* C6 (as claimed): when a required configuration value of a selected indexer
\* is absent, the process fails before any selected indexer has been run.
C6_ConfigFatalBeforeAnyRun ==
  failure = "config" => \A n \in Range(AllIndexerKeys) : ixState[n] = "idle"

\* C8: the chain indexer's stop is always called with immediate = true, and
\* with saveCheckpoint = false exactly when "reload" was received on the
\* "index" channel before the call; otherwise with saveCheckpoint = true.
C8_CheckpointSuppression ==
  [][(stopLog' # stopLog /\ Last(stopLog').name = Chain) =>
       /\ Last(stopLog').options.immediate = Some(TRUE)
       /\ Last(stopLog').options.saveCheckpoint = Some(~("reload" \in Range(received)))]_vars

C8_Witness ==
  \E k \in 1..Len(stopLog) :
    /\ stopLog[k].name = Chain
    /\ stopLog[k].options.saveCheckpoint = Some(FALSE)
    /\ handler.signal = "SIGTERM"

\* C9: a message on the "index" channel starts the shutdown if and only if
\* its payload is exactly "reload"; the process then exits with status 174,
\* which the handler does not overwrite; any other payload leaves the
\* checkpoint flag, the exit status, the callbacks, the handler and the
\* indexers as they were.
C9_ControlChannel ==
  [][/\ (received' # received /\ Last(received') # "reload") =>
          UNCHANGED <<willSaveCheckpoint, exitCode, shutdowns, ixState, handler, pc>>
     /\ (received' # received /\ Last(received') = "reload") =>
          /\ handler'.state = "shutdowns"
          /\ handler.state = "idle" => handler'.signal = "prexit"
          /\ exitCode' = Some(ReloadExitCode)
          /\ ~willSaveCheckpoint'
     /\ (handler'.state = "done" /\ "reload" \in Range(received')) =>
          exitCode' = Some(ReloadExitCode)]_vars

C9_Witness ==
  /\ handler.state = "done"
  /\ handler.signal = "prexit"
  /\ "reload" \in Range(received)
  /\ exitCode = Some(ReloadExitCode)
  /\ Len(stopLog) >= 1

\* an argument that selects nothing: neither "all", "setup", a registered
\* name, nor a prefix of a registered name
UnknownArg(arg) ==
  /\ ~IsDirective(arg)
  /\ arg \notin Range(AllIndexerKeys)
  /\ ~(EndsWithDot(arg) /\ \E n \in Range(AllIndexerKeys) : StartsWith(n, arg))

\* C10: if any argument, wherever it stands, is an unknown name or a prefix
\* that matches nothing, the process fails before the control channel is
\* subscribed, before any setup and before any run().
C10_UnknownNameFatal ==
  /\ ((\E k \in 1..Len(argv) : UnknownArg(argv[k])) /\ pc # "main") => failure = "argument"
  /\ failure = "argument" =>
       /\ ~subscribed
       /\ setupLog = <<>>
       /\ runInvoked = <<>>
       /\ shutdowns = <<>>
       /\ \A n \in Range(AllIndexerKeys) : ixState[n] = "idle"

C10_Witness ==
  /\ failure = "argument"
  /\ Len(argv) = 2
  /\ argv[1] = Chain
  /\ UnknownArg(argv[2])
  /\ handler.state = "done"

\* the events of index.ts:41-56 that stand for a failure of the process
FailureSignals == Signals \cup {"uncaughtException", "unhandledRejection"}

\* C11 (as claimed): whenever the handler was entered because of a signal, an
\* uncaught exception or an unhandled rejection, the process ends with the OS
\* code of that signal, or with 1 when the event has no such code.
C11_ExitStatusOfSignal ==
  (handler.state = "done" /\ handler.signal \in FailureSignals) =>
    exitCode = Some(SignalExitCode(handler.signal))

\* C11 (amended): in that case the process ends with a status that is not 0:
\* the OS code of the signal, or 1 when there is none, unless "reload" arrived
\* while the shutdown was in progress, whose status 174 the handler keeps.
C11_ExitStatusUnlessSet ==
  (handler.state = "done" /\ handler.signal \in FailureSignals) =>
    /\ exitCode # None
    /\ exitCode # Some(0)
    /\ exitCode = Some(IF "reload" \in Range(received)
                       THEN ReloadExitCode
                       ELSE SignalExitCode(handler.signal))

C11_Witness ==
  /\ handler.state = "done"
  /\ handler.signal = "SIGINT"
  /\ exitCode = Some(SignalExitCode("SIGINT"))
  /\ Len(stopLog) >= 1

\* C13 (as claimed): when connections are released, whatever event ended the
\* process and wherever the run loop stood, every indexer and sub-indexer that
\* had been started has been stopped.
C13_EveryStartedStopped ==
  released => \A n \in DOMAIN ixState : ixState[n] \in {"idle", "invoked", "stopped"}

\* C14: staking has started before the start of the chain follow begins and
\* stays started until the chain follow has stopped; the stop of staking
\* begins only after the stop of the chain follow has completed; and the
\* callback of the chain indexer is registered only once the intersection
\* has been negotiated.
C14_StakingOrdering ==
  /\ ixState[Staking] = "starting" => ixState[Chain] = "staking"
  /\ ixState[Chain] \in {"intersecting", "started", "stopping"} => ixState[Staking] = "started"
  /\ ixState[Staking] \in {"stopping", "stopped"} => ixState[Chain] = "stopped"
  /\ Chain \in Range(shutdowns) => ixState[Chain] \in {"started", "stopping", "stopped"}

C14_Witness ==
  /\ Chain \in handler.active
  /\ ixState[Chain] = "stopped"
  /\ ixState[Staking] = "stopping"
  /\ Len(shutdowns) >= 2

\* C15 (as claimed): the stop callback of a polling indexer is invoked only
\* once its start(context) has finished initialize and armed the triggers.
C15_StopOnlyWhenRunning ==
  \A k \in 1..Len(stopLog) : stopLog[k].name # Chain => stopLog[k].at = "running"

\* the setup operations of a run with setup, in order
ExpectedSetup ==
  << [op |-> "setupSchemas", of |-> {}],
     [op |-> "setup", of |-> Range(AllIndexerKeys)],
     [op |-> "setupAdminTables", of |-> {}],
     [op |-> "setupMigrationTables", of |-> {}],
     [op |-> "setupViews", of |-> {}] >>

SetupRequested == \E k \in 1..Len(argv) : argv[k] \in {SetupArg, All}

\* C17: the setup operations performed are always the first ones of: schemas,
\* the setup of every registered indexer (selected or not), admin tables,
\* migration tables, views; once a run() has been invoked of a command line
\* that asks for setup all five are complete; and a command line that does
\* not ask for setup performs none.
C17_SetupPrecedesRun ==
  /\ \E k \in 0..Len(ExpectedSetup) : setupLog = SubSeq(ExpectedSetup, 1, k)
  /\ (runInvoked # <<>> /\ SetupRequested) => setupLog = ExpectedSetup
  /\ ~SetupRequested => setupLog = <<>>

C17_Witness ==
  /\ setupLog = ExpectedSetup
  /\ Len(runInvoked) = 1
  /\ argv = <<Chain, SetupArg>>

\* the registry names a command line selects: those it names, those a prefix
\* argument matches and, with "all", those not disabled in the environment
SelectedBy(args, e) ==
  {n \in Range(AllIndexerKeys) :
     \/ n \in Range(args)
     \/ \E k \in 1..Len(args) : EndsWithDot(args[k]) /\ StartsWith(n, args[k])
     \/ All \in Range(args) /\ n \notin DisabledIndexers(e)}

\* the run() of the indexer has completed
RunCompleted(n) == ixState[n] \in {"started", "running", "stopping", "stopped"}

\* C19: whatever the order, duplication or prefix form of the arguments, the
\* run() calls are made in registry order, at most one per indexer, each after
\* the previous one has completed, and only of selected indexers; once the
\* loop is over every selected indexer has been run; so chain, when run, is
\* run first and, when stopped, is the last to be stopped.
C19_StartOrderIsRegistryOrder ==
  /\ \A j, k \in 1..Len(runInvoked) :
       j < k => IndexOf(AllIndexerKeys, runInvoked[j]) < IndexOf(AllIndexerKeys, runInvoked[k])
  /\ Range(runInvoked) \subseteq SelectedBy(argv, ENV)
  /\ \A k \in 1..(Len(runInvoked) - 1) : RunCompleted(runInvoked[k])
  /\ (pc = "idle" /\ failure = "") => Range(runInvoked) = SelectedBy(argv, ENV)
  /\ Chain \in Range(runInvoked) => runInvoked[1] = Chain
  /\ (released /\ Chain \in Range(StopNames)) => Last(StopNames) = Chain

C19_Witness ==
  /\ argv = << <<"ipfs", "">>, Chain >>
  /\ Len(runInvoked) = 3
  /\ released
  /\ Len(StopNames) = 3
  /\ Last(StopNames) = Chain

(***************************************************************************)
(* Properties of the chain configuration                                   *)
(***************************************************************************)
ConfigRead == chainConfig.status # "unread"
ConfigFilePresent == "CHAIN_INDEX_CONFIG" \in processEnv

\* the text is <digits>:<hash>, with one colon and a hash that is not empty
IsSlotHash(text) ==
  \E at \in 2..(Len(text) - 1) :
    /\ text[at] = ":"
    /\ \A k \in 1..Len(text) : (text[k] = ":") <=> (k = at)
    /\ \A k \in 1..(at - 1) : text[k] \in Digits

SlotHashOf(text) ==
  LET at == CHOOSE k \in 1..Len(text) : text[k] = ":"
  IN Point(DecimalValue(SubSeq(text, 1, at - 1)), SubSeq(text, at + 1, Len(text)))

OverrideAbsent == rawBegin = None \/ rawBegin = Some(<<>>)

\* C7: begin is the explicit override ("origin", "tip" or slot:hash) whenever
\* one is given, whatever the bootstrap points; otherwise the first bootstrap
\* point; and loading fails when there is neither, so begin is never empty.
C7_BeginPrecedence ==
  (ConfigRead /\ ConfigFilePresent) =>
    /\ rawBegin = Some(OriginText) =>
         chainConfig.status # "error" /\ chainConfig.begin = Keyword("origin")
    /\ rawBegin = Some(TipText) =>
         chainConfig.status # "error" /\ chainConfig.begin = Keyword("tip")
    /\ (rawBegin # None /\ IsSlotHash(rawBegin[1])) =>
         chainConfig.status # "error" /\ chainConfig.begin = SlotHashOf(rawBegin[1])
    /\ (OverrideAbsent /\ bootstrap # <<>>) =>
         chainConfig.status # "error" /\ chainConfig.begin = bootstrap[1]
    /\ (OverrideAbsent /\ bootstrap = <<>>) => chainConfig.status = "error"
    /\ chainConfig.status # "error" => chainConfig.begin.kind \in {"origin", "tip", "point"}
    /\ chainConfig.status = "handed" =>
         \/ chainConfig.start.keyword \in {"origin", "tip"}
         \/ Len(chainConfig.start.points) = 1

C7_Witness ==
  /\ chainConfig.status = "handed"
  /\ rawBegin = Some(OriginText)
  /\ bootstrap # <<>>
  /\ chainConfig.start.keyword = "origin"

(***************************************************************************)
(* Properties of the polling engine                                        *)
(***************************************************************************)
HandlersOfKey(e, k) == SumOver(e.running, {t \in Tasks : t.key = k})

\* C1: at no time do two handlers run for tasks with the same identity (for
\* ai.logo, the same S3 key); the in-flight set holds exactly the identities
\* of the running handlers, so a task met while its identity is in flight is
\* dropped, not run and not queued.
C1_NoDuplicateExecution ==
  engine.kind = "polling" =>
    /\ \A k \in Keys : HandlersOfKey(engine, k) <= 1
    /\ engine.inFlight = {TaskId(t) : t \in Running(engine)}

C1_Witness ==
  /\ engine.kind = "polling"
  /\ engine.config.name = "ai.logo"
  /\ engine.dropped
  /\ HandlersOfKey(engine, "logos/a") = 1
  /\ engine.queue = <<>>

\* C2: the number of handlers executing for an indexer never exceeds its
\* workers, however many tasks fetch returns; dispatch waits for a free slot.
C2_BoundedConcurrency ==
  engine.kind = "polling" => HandlerCount(engine) <= engine.config.workers

C2_Witness ==
  /\ engine.kind = "polling"
  /\ HandlerCount(engine) = engine.config.workers
  /\ engine.config.workers = 2
  /\ engine.queue # <<>>
  /\ TaskId(Head(engine.queue)) \notin engine.inFlight

\* C3: triggers that fire while a cycle is in progress coalesce: a cycle
\* starts only when none is running, it consumes the whole pending signal, so
\* one further cycle is owed after the current one and not one per trigger,
\* and two cycles never overlap.
C3_TriggerCoalescing ==
  [][engine'.kind = "polling" =>
       /\ engine'.cycles > engine.cycles =>
            engine.cycles = 0 /\ engine.pending >= 1 /\ engine'.pending = 0
       /\ engine'.cycles <= 1
       /\ engine'.trigsInCycle # {} => engine'.pending = 1]_vars

C3_Witness ==
  /\ engine.kind = "polling"
  /\ engine.config.name = "ai.logo"
  /\ engine.coalesced = {"interval", "channel"}
  /\ engine.cycles = 1
  /\ engine.pending = 0

\* the number of fetch calls a cycle of the indexer takes
ExpectedFetches(e) == IF e.config.name = "ai.logo" THEN 1 ELSE e.config.pages

\* C4: within a cycle fetch is called again while the last result said
\* continue and the cycle ends at the first result that does not, so a cycle
\* makes exactly N calls for a fetch that continues N-1 times, and exactly
\* one call for ai.logo.
C4_PaginationExhaustion ==
  [][engine'.kind = "polling" =>
       /\ engine'.cycles < engine.cycles => engine.fetchCalls = ExpectedFetches(engine)
       /\ engine'.fetchCalls <= ExpectedFetches(engine)
       /\ (engine.phase = "dispatch" /\ engine'.phase # "dispatch") =>
            engine'.phase = (IF engine.more THEN "fetch" ELSE "idle")]_vars

C4_Witness ==
  /\ engine.kind = "polling"
  /\ engine.config.name = "stub"
  /\ engine.config.pages = 2
  /\ engine.cycles = 0
  /\ engine.fetchCalls = 2

(***************************************************************************)
(* Properties of ai.logo's handler and table                               *)
(***************************************************************************)
IsAiLogo(e) == e.kind = "polling" /\ e.config.name = "ai.logo"

\* the objects listed that fetch skips
Skipped(e) == {k \in Keys : e.bucket[k] # Absent /\ ~NeedsFetch(e.bucket[k], e.fetched)}

\* C12 (as claimed): a handler that fails leaves its object outstanding, so
\* whenever no handler is in flight every listed object that fetch skips,
\* its ETag being in context.fetched, has the row of its content in ai.logo.
C12_NoSilentTaskLoss ==
  (IsAiLogo(engine) /\ engine.inFlight = {}) =>
    \A k \in Skipped(engine) : \E r \in engine.table : r.cid = Cid(engine.bucket[k])

\* C16: when a handler finishes, however it ends, exactly its identity
\* leaves the in-flight set and nothing else of the indexer changes state: it
\* keeps running and the other handlers go on; a task that leaves the page
\* being dispatched is handled if its identity is not in flight, also when
\* an earlier handler of that identity has finished, and is dropped without
\* being handled if it is.
C16_InFlightRelease ==
  [][engine'.kind = "polling" =>
       /\ \A t \in Tasks :
            engine'.running[t] < engine.running[t] =>
              /\ TaskId(t) \in engine.inFlight
              /\ engine'.inFlight = engine.inFlight \ {TaskId(t)}
              /\ \A u \in Tasks \ {t} : engine'.running[u] = engine.running[u]
              /\ engine'.state = engine.state
              /\ engine'.phase = engine.phase
              /\ engine'.queue = engine.queue
              /\ engine'.cycles = engine.cycles
       /\ (engine.phase = "dispatch" /\ engine.queue # <<>> /\ engine'.queue = Tail(engine.queue)) =>
            LET t == Head(engine.queue)
            IN IF TaskId(t) \in engine.inFlight
               THEN engine'.running = engine.running /\ engine'.inFlight = engine.inFlight
               ELSE /\ engine'.running[t] = engine.running[t] + 1
                    /\ engine'.inFlight = engine.inFlight \cup {TaskId(t)}]_vars

\* a second task of logos/a was dropped while the first was handled, the first
\* handler has written its row, and a later task of logos/a is being handled
C16_Witness ==
  /\ IsAiLogo(engine)
  /\ engine.dropped
  /\ Row(Cid("e1"), "A", "e1") \in engine.table
  /\ engine.running[Task("logos/a", "e3")] = 1

\* the state that the handler of `task`, ending well, leaves behind
Handled(e, task) ==
  [e EXCEPT !.fetched = FetchedAfter(e, task, "ok"), !.table = TableAfter(e, task, "ok")]

\* C18: ai.logo never holds two rows with the same cid; a write keeps every
\* row's cid and letter, changing at most the etag of the row it conflicts
\* with, or adds one row; and handling a task a second time leaves the table
\* and context.fetched as the first time left them.
C18_IdempotentPersistence ==
  [][IsAiLogo(engine) =>
       /\ \A r1, r2 \in engine'.table : r1.cid = r2.cid => r1 = r2
       /\ \A r \in engine.table : \E q \in engine'.table : q.cid = r.cid /\ q.letter = r.letter
       /\ Cardinality(engine'.table) <= Cardinality(engine.table) + 1
       /\ \A task \in Running(engine) :
            MayEnd(engine, task, "ok") =>
              LET once == Handled(engine, task)
              IN /\ Handled(once, task).table = once.table
                 /\ Handled(once, task).fetched = once.fetched]_vars

\* the row that was there at the start, of letter B, has been given the
\* ETag e2 by the handler of another key with the same content
C18_Witness ==
  /\ IsAiLogo(engine)
  /\ engine.bucket["logos/b"] = Absent
  /\ engine.table = {Row(Cid("e2"), "B", "e2")}
  /\ engine.fetched = {"e1", "e2"}

ListedKeys(e) == {k \in Keys : e.bucket[k] # Absent}

====
